---- MODULE Spec2Model ----
(***************************************************************************)
(* Conversational intent resolution of cryptofolio: the intent schema, the *)
(* rule-based extractor, the two networked providers, the routing of       *)
(* AiService, the dialogue state of ConversationManager and the dispatch   *)
(* of the interactive shell.                                               *)
(*                                                                         *)
(* Conventions.  An utterance is its sequence of whitespace-separated      *)
(* words.  An f64 is held in thousandths (0.1 is 100).  A HashMap is a     *)
(* function on its keys.  Option::None of a string is NoneStr, of an       *)
(* intent "None", of a number NoNum.                                       *)
(***************************************************************************)
EXTENDS Integers, Sequences, FiniteSets, TLC

(***************************************************************************)
(* Bounds of the model.                                                    *)
(***************************************************************************)
\* Utterances handed to the conversation per behaviour of the shell.
MaxTurns == 2
\* Answers typed to the questions of one operation.
MaxAnswers == 4
\* parse_input calls per behaviour of the service harness.
MaxCalls == 2
\* parsed inputs handed to ConversationManager::process in one run
MaxProcessed == 2
\* turns added to one history (the cap is 10)
MaxHistory == 11
\* threads that call warn_ai_fallback at the same time, and calls per thread
MaxCallers == 3
MaxWarnCalls == 2

NoneStr == "<none>"
NoNum == 0 - 1

(***************************************************************************)
(* ai/intent.rs : Intent                                                   *)
(***************************************************************************)
Intents ==
    { "PriceCheck", "MarketView", "TxBuy", "TxSell", "TxTransfer", "TxSwap",
      "PortfolioView", "HoldingsList", "HoldingsAdd", "HoldingsRemove",
      "HoldingsMove", "AccountList", "AccountAdd", "AccountShow", "Sync",
      "ConfigShow", "ConfigSet", "Help", "Unclear", "Ambiguous", "OutOfScope" }

to_command(intent) ==
    CASE intent = "PriceCheck" -> <<"price">>
      [] intent = "MarketView" -> <<"market">>
      [] intent = "TxBuy" -> <<"tx", "buy">>
      [] intent = "TxSell" -> <<"tx", "sell">>
      [] intent = "TxTransfer" -> <<"tx", "transfer">>
      [] intent = "TxSwap" -> <<"tx", "swap">>
      [] intent = "PortfolioView" -> <<"portfolio">>
      [] intent = "HoldingsList" -> <<"holdings", "list">>
      [] intent = "HoldingsAdd" -> <<"holdings", "add">>
      [] intent = "HoldingsRemove" -> <<"holdings", "remove">>
      [] intent = "HoldingsMove" -> <<"holdings", "move">>
      [] intent = "AccountList" -> <<"account", "list">>
      [] intent = "AccountAdd" -> <<"account", "add">>
      [] intent = "AccountShow" -> <<"account", "show">>
      [] intent = "Sync" -> <<"sync">>
      [] intent = "ConfigShow" -> <<"config", "show">>
      [] intent = "ConfigSet" -> <<"config", "set">>
      [] intent = "Help" -> <<"help">>
      [] OTHER -> <<>>

required_entities(intent) ==
    CASE intent = "PriceCheck" -> <<"symbols">>
      [] intent = "MarketView" -> <<"symbol">>
      [] intent = "TxBuy" -> <<"asset", "quantity", "account", "price">>
      [] intent = "TxSell" -> <<"asset", "quantity", "account", "price">>
      [] intent = "TxTransfer" -> <<"asset", "quantity", "from_account", "to_account">>
      [] intent = "TxSwap" ->
            <<"from_asset", "from_quantity", "to_asset", "to_quantity", "account">>
      [] intent = "HoldingsAdd" -> <<"asset", "quantity", "account">>
      [] intent = "HoldingsRemove" -> <<"asset", "quantity", "account">>
      [] intent = "HoldingsMove" -> <<"asset", "quantity", "from_account", "to_account">>
      [] intent = "AccountAdd" -> <<"name", "account_type", "category">>
      [] intent = "AccountShow" -> <<"name">>
      [] intent = "Sync" -> <<>>
      [] OTHER -> <<>>

\* a table that holds the trades only
requires_confirmation_trades_only(intent) ==
    intent \in { "TxBuy", "TxSell", "TxSwap" }

requires_confirmation(intent) ==
    intent \in { "TxBuy", "TxSell", "TxTransfer", "TxSwap", "HoldingsAdd",
                 "HoldingsRemove", "HoldingsMove", "AccountAdd" }

(***************************************************************************)
(* ai/intent.rs : Entity, ParsedInput                                      *)
(***************************************************************************)
EntityString(s) == [t |-> "String", s |-> s, n |-> 0, l |-> <<>>, b |-> FALSE]
EntityNumber(n) == [t |-> "Number", s |-> "", n |-> n, l |-> <<>>, b |-> FALSE]
EntitySymbols(l) == [t |-> "Symbols", s |-> "", n |-> 0, l |-> l, b |-> FALSE]
EntityBoolean(b) == [t |-> "Boolean", s |-> "", n |-> 0, l |-> <<>>, b |-> b]

EmptyMap == [k \in {} |-> EntityString("")]

\* HashMap::insert
MapInsert(m, k, v) == [x \in (DOMAIN m) \cup {k} |-> IF x = k THEN v ELSE m[x]]

\* HashMap::extend / the insert loop over another map: later values win
MapMerge(m, other) ==
    [x \in (DOMAIN m) \cup (DOMAIN other) |-> IF x \in DOMAIN other THEN other[x] ELSE m[x]]

ParsedInput(intent, entities, missing, confidence, raw_input) ==
    [intent |-> intent, entities |-> entities, missing |-> missing,
     confidence |-> confidence, raw_input |-> raw_input]

NoEntity == [t |-> "None", s |-> "", n |-> 0, l |-> <<>>, b |-> FALSE]

\* ParsedInput::get_string: the entity under key when it is a String
get_string(entities, key) ==
    IF key \in DOMAIN entities /\ entities[key].t = "String"
    THEN entities[key].s ELSE NoneStr

\* Result<ParsedInput>
Ok(p) == [ok |-> TRUE, val |-> p]
Err(e) == [ok |-> FALSE, err |-> e]

\* Vec::contains
Contains(seq, x) == \E i \in DOMAIN seq : seq[i] = x

\* Iterator::filter over a Vec, order kept
RECURSIVE SeqFilterOut(_, _)
SeqFilterOut(seq, x) ==
    IF seq = <<>> THEN <<>>
    ELSE IF Head(seq) = x THEN SeqFilterOut(Tail(seq), x)
         ELSE <<Head(seq)>> \o SeqFilterOut(Tail(seq), x)

(***************************************************************************)
(* Text.  str::to_lowercase word by word; str::contains by the keywords a  *)
(* word holds as substrings; the regexes by the shape of adjacent words.   *)
(***************************************************************************)
Lower(w) ==
    CASE w = "I" -> "i"
      [] w = "Binance" -> "binance"
      [] w = "Kraken" -> "kraken"
      [] w = "BTC" -> "btc"
      [] w = "ETH" -> "eth"
      [] w = "Yes" -> "yes"
      [] OTHER -> w

to_lowercase(text) == [i \in DOMAIN text |-> Lower(text[i])]

\* The keywords of the extractor and of assess_complexity that a lower-case
\* word holds as a proper substring.
Inner(w) ==
    CASE w = "sold" -> {"sol"}
      [] w = "ethereum" -> {"eth"}
      [] w = "solana" -> {"sol"}
      [] w = "kraken" -> {"k"}
      [] w = "asdlkj" -> {"k"}
      [] w = "3k" -> {"k"}
      [] w = "link" -> {"k"}
      [] OTHER -> {}

\* input_lower.contains(keyword), keyword a single word
contains(text, keyword) ==
    \E i \in DOMAIN text : keyword = Lower(text[i]) \/ keyword \in Inner(Lower(text[i]))

\* input_lower.contains(phrase), phrase several words
contains_phrase(text, phrase) ==
    \E i \in 0..(Len(text) - Len(phrase)) :
        \A j \in DOMAIN phrase : Lower(text[i + j]) = phrase[j]

\* input_lower.starts_with(phrase)
starts_with(text, phrase) ==
    /\ Len(text) >= Len(phrase)
    /\ \A j \in DOMAIN phrase : Lower(text[j]) = phrase[j]

\* str::parse::<f64> of a whole word, in thousandths
ParseF64(w) ==
    CASE w = "0.1" -> 100
      [] w = "2" -> 2000
      [] w = "95" -> 95000
      [] w = "95000" -> 95000000
      [] w = "3000" -> 3000000
      [] w = "2000000" -> 2000000000
      [] OTHER -> NoNum

\* the capture (\d+\.?\d*) at the start of a word, in thousandths
Digits(w) ==
    CASE w = "3k" -> 3000
      [] OTHER -> ParseF64(w)

\* f64::to_string
FmtNum(n) ==
    CASE n = 100 -> "0.1"
      [] n = 2000 -> "2"
      [] n = 3000 -> "3"
      [] n = 95000 -> "95"
      [] n = 3000000 -> "3000"
      [] n = 95000000 -> "95000"
      [] n = 2000000000 -> "2000000"
      [] OTHER -> ToString(n)

\* str::join(" ")
RECURSIVE Join(_)
Join(words) ==
    IF words = <<>> THEN ""
    ELSE IF Len(words) = 1 THEN words[1]
         ELSE words[1] \o " " \o Join(Tail(words))

Min(S) == CHOOSE x \in S : \A y \in S : x <= y

(***************************************************************************)
(* ai/providers/ollama.rs : the rule-based extractor                       *)
(***************************************************************************)
known_symbols ==
    << <<"bitcoin", "BTC">>, <<"btc", "BTC">>, <<"ethereum", "ETH">>, <<"eth", "ETH">>,
       <<"solana", "SOL">>, <<"sol", "SOL">>, <<"cardano", "ADA">>, <<"ada", "ADA">>,
       <<"dogecoin", "DOGE">>, <<"doge", "DOGE">>, <<"xrp", "XRP">>, <<"ripple", "XRP">>,
       <<"polkadot", "DOT">>, <<"dot", "DOT">>, <<"avalanche", "AVAX">>,
       <<"avax", "AVAX">>, <<"matic", "MATIC">>, <<"polygon", "MATIC">>,
       <<"litecoin", "LTC">>, <<"ltc", "LTC">>, <<"chainlink", "LINK">>,
       <<"link", "LINK">> >>

RECURSIVE extract_symbols_from(_, _, _)
extract_symbols_from(text, i, symbols) ==
    IF i > Len(known_symbols) THEN symbols
    ELSE extract_symbols_from(text, i + 1,
            IF contains(text, known_symbols[i][1]) /\ ~Contains(symbols, known_symbols[i][2])
            THEN Append(symbols, known_symbols[i][2])
            ELSE symbols)

extract_symbols(text) == extract_symbols_from(text, 1, <<>>)

FirstOf(symbols) == IF symbols = <<>> THEN NoneStr ELSE Head(symbols)

extract_single_symbol(text) == FirstOf(extract_symbols(text))

\* a word that starts with one of the tickers of the first quantity pattern
TickerPrefix(w) ==
    w \in {"btc", "eth", "ethereum", "sol", "solana", "sold", "ada", "doge", "dogecoin",
           "xrp", "dot", "avax", "matic", "ltc", "link"}

\* a word that starts with one of the names of the second quantity pattern
NamePrefix(w) == w \in {"bitcoin", "ethereum", "solana"}

\* the place of the leftmost match of "<number> <word of class P>", 0 for none
NumberBefore(low, P(_)) ==
    LET hits == { i \in 1..(Len(low) - 1) : ParseF64(low[i]) # NoNum /\ P(low[i + 1]) }
    IN IF hits = {} THEN 0 ELSE Min(hits)

\* the place of the number of the leftmost match of "<verb> <digits>", 0 for none
NumberAfter(low, verb) ==
    LET hits == { i \in 2..Len(low) : low[i - 1] = verb /\ Digits(low[i]) # NoNum }
    IN IF hits = {} THEN 0 ELSE Min(hits)

\* the first bare number of the sentence in (0, 1_000_000), 0 for none
FirstBareNumber(text) ==
    LET hits == { i \in DOMAIN text :
                    ParseF64(text[i]) # NoNum /\ ParseF64(text[i]) > 0
                    /\ ParseF64(text[i]) < 1000000 * 1000 }
    IN IF hits = {} THEN 0 ELSE Min(hits)

\* the first pattern that matched decides; p1..p5 are the places of the matches
QuantityAt(low, text, p1, p2, p3, p4, p5) ==
    IF p1 # 0 THEN ParseF64(low[p1])
    ELSE IF p2 # 0 THEN ParseF64(low[p2])
    ELSE IF p3 # 0 THEN Digits(low[p3])
    ELSE IF p4 # 0 THEN Digits(low[p4])
    ELSE IF p5 # 0 THEN ParseF64(text[p5])
    ELSE NoNum

QuantityIn(low, text) ==
    QuantityAt(low, text, NumberBefore(low, TickerPrefix), NumberBefore(low, NamePrefix),
               NumberAfter(low, "bought"), NumberAfter(low, "sold"), FirstBareNumber(text))

extract_quantity(text) == QuantityIn(to_lowercase(text), text)

\* a word that ends with "at", "for" or "@"
PriceLead(w) == w \in {"at", "for", "@", "what"}

\* a word that starts with "dollar", "usd" or "per"
PriceUnit(w) == w \in {"dollar", "dollars", "usd", "per"}

\* the place of the price: "at|for|@ <digits>" first, "<digits> dollar|usd|per" last
\* (the second pattern needs a '$', which input_clean no longer holds)
PricePlace(low) ==
    LET lead == { i \in 2..Len(low) : PriceLead(low[i - 1]) /\ Digits(low[i]) # NoNum }
        unit == { i \in 1..(Len(low) - 1) : Digits(low[i]) # NoNum /\ PriceUnit(low[i + 1]) }
    IN IF lead # {} THEN Min(lead) ELSE IF unit # {} THEN Min(unit) ELSE 0

\* a price under 1000 of a sentence that holds a 'k' is in thousands
PriceScaled(text, low, at) ==
    IF at = 0 THEN NoNum
    ELSE IF Digits(low[at]) < 1000 * 1000 /\ contains(text, "k") THEN Digits(low[at]) * 1000
    ELSE Digits(low[at])

PriceOf(text, low) == PriceScaled(text, low, PricePlace(low))

extract_price(text) == PriceOf(text, to_lowercase(text))

known_accounts ==
    <<"binance", "coinbase", "kraken", "ledger", "trezor", "metamask", "phantom">>

\* the first letter upper-cased
Capitalize(w) ==
    CASE w = "binance" -> "Binance"
      [] w = "coinbase" -> "Coinbase"
      [] w = "kraken" -> "Kraken"
      [] w = "ledger" -> "Ledger"
      [] w = "trezor" -> "Trezor"
      [] w = "metamask" -> "Metamask"
      [] w = "phantom" -> "Phantom"
      [] OTHER -> w

extract_account(text) ==
    LET low == to_lowercase(text)
        known == { i \in DOMAIN known_accounts : contains(text, known_accounts[i]) }
        \* input_lower.find(" on "): the first "on" between two other words
        ons == { i \in 2..(Len(low) - 1) : low[i] = "on" }
    IN IF known # {} THEN Capitalize(known_accounts[Min(known)])
       ELSE IF ons # {} /\ Len(text[Min(ons) + 1]) > 2 THEN text[Min(ons) + 1]
            ELSE NoneStr

\* the entities and the missing list of the buy and of the sell branch
TradeEntitiesOf(asset, qty, price, account) ==
    LET e1 == IF asset # NoneStr THEN MapInsert(EmptyMap, "asset", EntityString(asset))
              ELSE EmptyMap
        e2 == IF qty # NoNum THEN MapInsert(e1, "quantity", EntityNumber(qty)) ELSE e1
        e3 == IF price # NoNum THEN MapInsert(e2, "price", EntityNumber(price)) ELSE e2
    IN IF account # NoneStr THEN MapInsert(e3, "account", EntityString(account)) ELSE e3

TradeMissingOf(asset, qty, price, account) ==
    (IF asset = NoneStr THEN <<"asset">> ELSE <<>>)
    \o (IF qty = NoNum THEN <<"quantity">> ELSE <<>>)
    \o (IF price = NoNum THEN <<"price">> ELSE <<>>)
    \o (IF account = NoneStr THEN <<"account">> ELSE <<>>)

\* the buy and the sell branch: the four extractions, then entities and missing list
TradeParsed(intent, text, asset, qty, price, account) ==
    ParsedInput(intent, TradeEntitiesOf(asset, qty, price, account),
                TradeMissingOf(asset, qty, price, account), 60, text)

Trade(intent, text) ==
    TradeParsed(intent, text, extract_single_symbol(text), extract_quantity(text),
                extract_price(text), extract_account(text))

\* the price branch: the symbols found, and nothing ever missing
PriceCheckOf(text, symbols) ==
    ParsedInput("PriceCheck",
                IF symbols = <<>> THEN EmptyMap
                ELSE MapInsert(EmptyMap, "symbols", EntitySymbols(symbols)),
                <<>>, 60, text)

rule_based_fallback(text) ==
    IF contains(text, "price") \/ contains(text, "worth")
       \/ starts_with(text, <<"how", "much">>)
    THEN Ok(PriceCheckOf(text, extract_symbols(text)))
    ELSE IF contains(text, "portfolio") \/ contains(text, "holdings")
            \/ contains_phrase(text, <<"what", "do", "i", "have">>)
    THEN Ok(ParsedInput("PortfolioView", EmptyMap, <<>>, 70, text))
    ELSE IF contains(text, "bought") \/ contains(text, "buy") \/ contains(text, "purchased")
    THEN Ok(Trade("TxBuy", text))
    ELSE IF contains(text, "sold") \/ contains(text, "sell")
    THEN Ok(Trade("TxSell", text))
    ELSE IF contains(text, "transfer") \/ contains(text, "move") \/ contains(text, "send")
    THEN Ok(ParsedInput("HoldingsMove", EmptyMap,
                <<"asset", "quantity", "from_account", "to_account">>, 50, text))
    ELSE IF contains(text, "sync") \/ contains(text, "refresh") \/ contains(text, "update")
    THEN Ok(ParsedInput("Sync", EmptyMap, <<>>, 60, text))
    ELSE IF to_lowercase(text) = <<"help">> \/ to_lowercase(text) = <<"?">>
            \/ contains_phrase(text, <<"what", "can", "you">>)
    THEN Ok(ParsedInput("Help", EmptyMap, <<>>, 90, text))
    ELSE Ok(ParsedInput("Unclear", EmptyMap, <<>>, 0, text))

(***************************************************************************)
(* ai/intent.rs : Entity::as_number, ParsedInput::to_cli_command           *)
(***************************************************************************)
\* ParsedInput::get_number: Entity::as_number of the entity under key
get_number(entities, key) ==
    IF key \notin DOMAIN entities THEN NoNum
    ELSE IF entities[key].t = "Number" THEN entities[key].n
    ELSE IF entities[key].t = "String" THEN ParseF64(entities[key].s)
    ELSE NoNum

\* format!("\"{}\"", s)
Quote(s) == "\"" \o s \o "\""

\* parts.push(value) when the getter gave Some
PushString(entities, key, before) ==
    IF get_string(entities, key) # NoneStr
    THEN before \o <<get_string(entities, key)>> ELSE <<>>

PushQuoted(entities, key, flag) ==
    IF get_string(entities, key) # NoneStr
    THEN <<flag, Quote(get_string(entities, key))>> ELSE <<>>

PushNumber(entities, key, before) ==
    IF get_number(entities, key) # NoNum
    THEN before \o <<FmtNum(get_number(entities, key))>> ELSE <<>>

PushTrue(entities, key, flag) ==
    IF key \in DOMAIN entities /\ entities[key].t = "Boolean" /\ entities[key].b
    THEN <<flag>> ELSE <<>>

\* The command as its words; NoCommand when to_command gives None.
NoCommand == <<>>

to_cli_command(parsed) ==
    LET e == parsed.entities
        intent == parsed.intent
    IN IF to_command(intent) = <<>> THEN NoCommand
       ELSE to_command(intent) \o
            (CASE intent = "PriceCheck" ->
                    IF "symbols" \in DOMAIN e /\ e["symbols"].t = "Symbols"
                    THEN e["symbols"].l
                    ELSE PushString(e, "symbols", <<>>)
               [] intent = "MarketView" ->
                    PushString(e, "symbol", <<>>) \o PushTrue(e, "show_24h", "--24h")
               [] intent \in {"TxBuy", "TxSell"} ->
                    PushString(e, "asset", <<>>) \o PushNumber(e, "quantity", <<>>)
                    \o PushQuoted(e, "account", "--account")
                    \o PushNumber(e, "price", <<"--price">>)
               [] intent \in {"TxTransfer", "HoldingsMove"} ->
                    PushString(e, "asset", <<>>) \o PushNumber(e, "quantity", <<>>)
                    \o PushQuoted(e, "from_account", "--from")
                    \o PushQuoted(e, "to_account", "--to")
               [] intent = "HoldingsAdd" ->
                    PushString(e, "asset", <<>>) \o PushNumber(e, "quantity", <<>>)
                    \o PushQuoted(e, "account", "--account")
                    \o PushNumber(e, "cost_basis", <<"--cost">>)
               [] intent = "PortfolioView" ->
                    PushQuoted(e, "account", "--account")
                    \o PushQuoted(e, "category", "--category")
                    \o PushTrue(e, "by_account", "--by-account")
                    \o PushTrue(e, "by_category", "--by-category")
               [] intent = "Sync" -> PushQuoted(e, "account", "--account")
               [] intent = "AccountAdd" ->
                    (IF get_string(e, "name") # NoneStr
                     THEN <<Quote(get_string(e, "name"))>> ELSE <<>>)
                    \o PushString(e, "account_type", <<"--type">>)
                    \o PushString(e, "category", <<"--category">>)
               [] OTHER -> <<>>)

(***************************************************************************)
(* ai/conversation.rs : ConversationState, ConversationManager             *)
(***************************************************************************)
Turn(role, content) == [role |-> role, content |-> content]

\* a history that turns a new turn away once it is full
add_turn_keeping_oldest(st, role, content) ==
    IF Len(st.history) >= 10 THEN st
    ELSE [st EXCEPT !.history = Append(@, Turn(role, content))]

add_turn(st, role, content) ==
    LET pushed == Append(st.history, Turn(role, content))
    IN [st EXCEPT !.history = IF Len(pushed) > 10 THEN Tail(pushed) ELSE pushed]

\* a clearing that forgets the intent and the flag but keeps the entities
clear_operation_keeping_entities(st) ==
    [st EXCEPT !.current_intent = "None", !.confirmation_pending = FALSE]

clear_operation(st) ==
    [st EXCEPT !.current_intent = "None", !.collected_entities = EmptyMap,
               !.missing_entities = <<>>, !.confirmation_pending = FALSE]

update_from_parsed(st, parsed) ==
    LET account == get_string(parsed.entities, "account")
        from_account == get_string(parsed.entities, "from_account")
        asset == get_string(parsed.entities, "asset")
    IN [st EXCEPT
          !.last_account = IF from_account # NoneStr THEN from_account
                           ELSE IF account # NoneStr THEN account ELSE @,
          !.last_asset = IF asset # NoneStr THEN asset ELSE @]

apply_context_defaults(st, parsed) ==
    IF Contains(parsed.missing, "account") /\ st.last_account # NoneStr
    THEN [st EXCEPT !.collected_entities =
                        MapInsert(@, "account", EntityString(st.last_account))]
    ELSE st

\* a recomputation that lists the absent entities last-first
calculate_missing_backwards(st, intent) ==
    LET absent == SelectSeq(required_entities(intent),
                            LAMBDA e : e \notin DOMAIN st.collected_entities)
    IN [i \in 1..Len(absent) |-> absent[Len(absent) + 1 - i]]

calculate_missing(st, intent) ==
    SelectSeq(required_entities(intent), LAMBDA e : e \notin DOMAIN st.collected_entities)

build_command(st, intent) ==
    to_cli_command(ParsedInput(intent, st.collected_entities, <<>>, 100, <<>>))

\* ConversationAction: its variant, the field of a Clarify, the command of a
\* Confirm or an Execute
Action(kind, field, command) == [kind |-> kind, field |-> field, command |-> command]

Step(st, action) == [state |-> st, action |-> action]

\* process, from the merge of the entities on
process_operation(st0, parsed) ==
    LET st1 == [st0 EXCEPT !.current_intent = parsed.intent,
                           !.missing_entities = parsed.missing,
                           !.collected_entities = MapMerge(@, parsed.entities)]
        st2 == update_from_parsed(apply_context_defaults(st1, parsed), parsed)
        still_missing == calculate_missing(st2, parsed.intent)
    IN IF still_missing # <<>>
       THEN Step(st2, Action("Clarify", still_missing[1], NoCommand))
       ELSE IF requires_confirmation(parsed.intent)
       THEN Step([st2 EXCEPT !.confirmation_pending = TRUE],
                 Action("Confirm", NoneStr, build_command(st2, parsed.intent)))
       ELSE Step(clear_operation(st2),
                 Action("Execute", NoneStr, build_command(st2, parsed.intent)))

\* a process that drops the operation in progress when it cannot place the
\* input
process_dropping_operation(st, parsed) ==
    LET st0 == add_turn(st, "User", parsed.raw_input)
    IN IF parsed.intent \in {"Unclear", "Ambiguous", "OutOfScope", "Help"}
       THEN Step(clear_operation(st0), Action("Clarify", "intent", NoCommand))
       ELSE process_operation(st0, parsed)

process(st, parsed) ==
    LET st0 == add_turn(st, "User", parsed.raw_input)
    IN CASE parsed.intent = "Unclear" -> Step(st0, Action("Clarify", "intent", NoCommand))
         [] parsed.intent = "Ambiguous" -> Step(st0, Action("Disambiguate", NoneStr, NoCommand))
         [] parsed.intent = "OutOfScope" -> Step(st0, Action("OutOfScope", NoneStr, NoCommand))
         [] parsed.intent = "Help" -> Step(st0, Action("Respond", NoneStr, NoCommand))
         [] OTHER -> process_operation(st0, parsed)

\* a confirmation that clears the operation before it builds the command
handle_confirmation_clearing_first(st, input) ==
    LET input_lower == Join(to_lowercase(input))
    IN IF input_lower \in {"y", "yes", ""}
       THEN IF st.current_intent # "None"
            THEN Step(clear_operation(st),
                      Action("Execute", NoneStr,
                             build_command(clear_operation(st), st.current_intent)))
            ELSE Step(st, Action("Cancel", NoneStr, NoCommand))
       ELSE IF input_lower \in {"n", "no", "cancel", "abort"}
       THEN Step(clear_operation(st), Action("Cancel", NoneStr, NoCommand))
       ELSE Step(st, Action("Clarify", "confirmation", NoCommand))

\* a reading of the reply that takes anything but a yes for a no
handle_confirmation_no_by_default(st, input) ==
    IF Join(to_lowercase(input)) \in {"y", "yes", ""} /\ st.current_intent # "None"
    THEN Step(clear_operation(st),
              Action("Execute", NoneStr, build_command(st, st.current_intent)))
    ELSE Step(clear_operation(st), Action("Cancel", NoneStr, NoCommand))

handle_confirmation(st, input) ==
    LET input_lower == Join(to_lowercase(input))
    IN IF input_lower \in {"y", "yes", ""}
       THEN IF st.current_intent # "None"
            THEN Step(clear_operation(st),
                      Action("Execute", NoneStr, build_command(st, st.current_intent)))
            ELSE Step(st, Action("Cancel", NoneStr, NoCommand))
       ELSE IF input_lower \in {"n", "no", "cancel", "abort"}
       THEN Step(clear_operation(st), Action("Cancel", NoneStr, NoCommand))
       ELSE Step(st, Action("Clarify", "confirmation", NoCommand))

\* str::to_uppercase of a word
Upper(w) ==
    CASE w = "btc" -> "BTC"
      [] w = "eth" -> "ETH"
      [] w = "Kraken" -> "KRAKEN"
      [] w = "3k" -> "3K"
      [] OTHER -> w

\* replace(',', "").replace('$', "").replace("k", "000").replace("K", "000")
CleanNumber(w) ==
    CASE w = "3k" -> "3000"
      [] w = "Kraken" -> "000ra000en"
      [] OTHER -> w

\* a reading of the answer that keeps the text when it is not a number
handle_entity_input_keeping_text(input, expected_field) ==
    IF expected_field \in {"quantity", "price", "cost_basis", "fee"}
          /\ Len(input) = 1 /\ ParseF64(CleanNumber(input[1])) # NoNum
    THEN EntityNumber(ParseF64(CleanNumber(input[1])))
    ELSE IF input # <<>> THEN EntityString(Join(input)) ELSE NoEntity

handle_entity_input(input, expected_field) ==
    IF expected_field \in {"quantity", "price", "cost_basis", "fee"}
    THEN IF Len(input) = 1 /\ ParseF64(CleanNumber(input[1])) # NoNum
         THEN EntityNumber(ParseF64(CleanNumber(input[1])))
         ELSE NoEntity
    ELSE IF expected_field = "symbols"
    THEN IF input # <<>>
         THEN EntitySymbols([i \in DOMAIN input |-> Upper(input[i])])
         ELSE NoEntity
    ELSE IF input # <<>> THEN EntityString(Join(input)) ELSE NoEntity

(***************************************************************************)
(* What the network does during one provider call.  health: GET /api/tags  *)
(* succeeds.  post: the inference request ends in "error" (no connection,  *)
(* timeout), "status" (a non-success HTTP status), "body" (the envelope    *)
(* does not decode) or "ok", and then the model's text is content.         *)
(* content.kind: "json" (an AiResponse object), "noisy" (one with text     *)
(* around it), "garbage" (anything else).                                  *)
(***************************************************************************)
JsonString(s) == [t |-> "String", s |-> s, n |-> 0, l |-> <<>>, b |-> FALSE]
JsonNumber(n) == [t |-> "Number", s |-> "", n |-> n, l |-> <<>>, b |-> FALSE]
JsonArray(l) == [t |-> "Array", s |-> "", n |-> 0, l |-> l, b |-> FALSE]
JsonBool(b) == [t |-> "Bool", s |-> "", n |-> 0, l |-> <<>>, b |-> b]
JsonNull == [t |-> "Null", s |-> "", n |-> 0, l |-> <<>>, b |-> FALSE]

AiResponse(intent, entities, missing, confidence) ==
    [intent |-> intent, entities |-> entities, missing |-> missing,
     confidence |-> confidence]

NoReply == AiResponse("", EmptyMap, <<>>, NoNum)

\* HashMap literal of up to four pairs
Map1(k1, v1) == MapInsert(EmptyMap, k1, v1)
Map2(k1, v1, k2, v2) == MapInsert(Map1(k1, v1), k2, v2)
Map3(k1, v1, k2, v2, k3, v3) == MapInsert(Map2(k1, v1, k2, v2), k3, v3)
Map4(k1, v1, k2, v2, k3, v3, k4, v4) == MapInsert(Map3(k1, v1, k2, v2, k3, v3), k4, v4)

\* The replies a model is taken to give: complete ones, ones whose missing
\* list agrees with their entities, and ones whose missing list does not.
Replies ==
    { AiResponse("tx.buy",
          Map4("asset", JsonString("BTC"), "quantity", JsonNumber(100),
               "price", JsonNumber(95000000), "account", JsonString("Binance")),
          <<>>, 95),
      AiResponse("tx.buy", EmptyMap, <<"asset">>, NoNum),
      AiResponse("tx.buy",
          Map4("asset", JsonString("BTC"), "quantity", JsonNumber(100),
               "price", JsonNumber(95000000), "account", JsonString("Kraken")),
          <<"account">>, 80),
      AiResponse("tx.sell",
          Map3("asset", JsonString("ETH"), "quantity", JsonNumber(2000),
               "price", JsonNumber(3000000)),
          <<"account">>, 90),
      AiResponse("holdings.add",
          Map2("asset", JsonString("ETH"), "quantity", JsonNumber(2000)),
          <<"account">>, 90),
      AiResponse("tx.transfer",
          Map4("asset", JsonString("BTC"), "quantity", JsonNumber(100),
               "from_account", JsonString("Binance"), "to_account", JsonString("Ledger")),
          <<>>, 90),
      AiResponse("account.add", Map1("name", JsonString("Ledger")),
          <<"account_type", "category">>, 80),
      AiResponse("account.show", EmptyMap, <<"name">>, 80),
      AiResponse("account.show", Map1("name", JsonString("Ledger")), <<>>, 90),
      AiResponse("holdings.remove",
          Map3("asset", JsonString("ETH"), "quantity", JsonNumber(2000),
               "account", JsonString("Kraken")),
          <<>>, 90),
      AiResponse("price.check", Map1("symbols", JsonArray(<<"BTC", "ETH">>)), <<>>, 90),
      AiResponse("holdings", Map1("verbose", JsonNull), <<>>, 70),
      AiResponse("ambiguous", Map1("account", JsonString("Ledger")), <<>>, 50),
      AiResponse("out_of_scope", EmptyMap, <<>>, 90),
      AiResponse("banana", EmptyMap, <<>>, NoNum) }

Content(kind, reply) == [kind |-> kind, reply |-> reply]

NetOutcome(health, post, content) == [health |-> health, post |-> post, content |-> content]

NetOutcomes ==
    { NetOutcome(h, p, Content("none", NoReply)) :
        h \in BOOLEAN, p \in {"error", "status", "body"} }
    \cup { NetOutcome(h, "ok", Content("garbage", NoReply)) : h \in BOOLEAN }
    \cup { NetOutcome(h, "ok", Content(k, r)) :
            h \in BOOLEAN, k \in {"json", "noisy"}, r \in Replies }

\* What one provider call did: its result, the requests it sent, and whether
\* it called notifications::warn_ai_fallback.
Outcome(result, requests, warn) == [result |-> result, requests |-> requests, warn |-> warn]

(***************************************************************************)
(* ai/providers/ollama.rs : OllamaProvider                                 *)
(***************************************************************************)
OllamaProvider_map_intent(intent_str) ==
    CASE intent_str \in {"price.check", "price_check", "check_price", "price"} -> "PriceCheck"
      [] intent_str \in {"market.view", "market_view", "market"} -> "MarketView"
      [] intent_str \in {"tx.buy", "tx_buy", "buy", "record_buy"} -> "TxBuy"
      [] intent_str \in {"tx.sell", "tx_sell", "sell", "record_sell"} -> "TxSell"
      [] intent_str \in {"tx.transfer", "tx_transfer", "transfer"} -> "TxTransfer"
      [] intent_str \in {"tx.swap", "tx_swap", "swap"} -> "TxSwap"
      [] intent_str \in {"portfolio.view", "portfolio_view", "view_portfolio", "portfolio"}
            -> "PortfolioView"
      [] intent_str \in {"holdings.list", "holdings_list", "list_holdings", "holdings"}
            -> "HoldingsList"
      [] intent_str \in {"holdings.add", "holdings_add", "add_holdings"} -> "HoldingsAdd"
      [] intent_str \in {"holdings.remove", "holdings_remove"} -> "HoldingsRemove"
      [] intent_str \in {"holdings.move", "holdings_move", "move_holdings"} -> "HoldingsMove"
      [] intent_str \in {"account.list", "account_list", "list_accounts"} -> "AccountList"
      [] intent_str \in {"account.add", "account_add", "add_account"} -> "AccountAdd"
      [] intent_str \in {"account.show", "account_show", "show_account"} -> "AccountShow"
      [] intent_str \in {"sync", "sync_exchange"} -> "Sync"
      [] intent_str \in {"config.show", "config_show"} -> "ConfigShow"
      [] intent_str \in {"config.set", "config_set"} -> "ConfigSet"
      [] intent_str = "help" -> "Help"
      [] intent_str = "ambiguous" -> "Ambiguous"
      [] intent_str \in {"out_of_scope", "out-of-scope"} -> "OutOfScope"
      [] OTHER -> "Unclear"

\* the same for both providers
convert_entities(entities) ==
    LET kept == { k \in DOMAIN entities :
                    entities[k].t \in {"String", "Number", "Array", "Bool"} }
    IN [k \in kept |->
            CASE entities[k].t = "String" -> EntityString(entities[k].s)
              [] entities[k].t = "Number" -> EntityNumber(entities[k].n)
              [] entities[k].t = "Array" -> EntitySymbols(entities[k].l)
              [] OTHER -> EntityBoolean(entities[k].b)]

\* the text from the first '{' to the last '}'
extract_json(content) ==
    IF content.kind = "noisy" THEN Content("json", content.reply) ELSE content

OllamaProvider_parse_response(content, raw_input) ==
    IF extract_json(content).kind = "json"
    THEN Ok(ParsedInput(OllamaProvider_map_intent(content.reply.intent),
                        convert_entities(content.reply.entities),
                        content.reply.missing,
                        IF content.reply.confidence = NoNum THEN 70
                        ELSE content.reply.confidence,
                        raw_input))
    ELSE rule_based_fallback(raw_input)

\* GET /api/tags
health_check(net) == net.health

\* a provider that sends the inference request again when it fails
OllamaProvider_parse_input_retrying(input, net) ==
    IF ~health_check(net)
    THEN Outcome(rule_based_fallback(input), <<"GET /api/tags">>, TRUE)
    ELSE IF net.post = "ok"
    THEN Outcome(OllamaProvider_parse_response(net.content, input),
                 <<"GET /api/tags", "POST /api/generate">>, FALSE)
    ELSE Outcome(rule_based_fallback(input),
                 <<"GET /api/tags", "POST /api/generate", "POST /api/generate">>, TRUE)

OllamaProvider_parse_input(input, net) ==
    IF ~health_check(net)
    THEN Outcome(rule_based_fallback(input), <<"GET /api/tags">>, TRUE)
    ELSE IF net.post = "error"
    THEN Outcome(rule_based_fallback(input),
                 <<"GET /api/tags", "POST /api/generate">>, TRUE)
    ELSE IF net.post = "ok"
    THEN Outcome(OllamaProvider_parse_response(net.content, input),
                 <<"GET /api/tags", "POST /api/generate">>, FALSE)
    ELSE Outcome(rule_based_fallback(input),
                 <<"GET /api/tags", "POST /api/generate">>, TRUE)

(***************************************************************************)
(* ai/providers/claude.rs : ClaudeProvider                                 *)
(***************************************************************************)
ClaudeProvider_map_intent(intent_str) ==
    CASE intent_str \in {"price.check", "price_check", "check_price"} -> "PriceCheck"
      [] intent_str \in {"market.view", "market_view"} -> "MarketView"
      [] intent_str \in {"tx.buy", "tx_buy", "buy", "record_buy"} -> "TxBuy"
      [] intent_str \in {"tx.sell", "tx_sell", "sell", "record_sell"} -> "TxSell"
      [] intent_str \in {"tx.transfer", "tx_transfer", "transfer"} -> "TxTransfer"
      [] intent_str \in {"tx.swap", "tx_swap", "swap"} -> "TxSwap"
      [] intent_str \in {"portfolio.view", "portfolio_view", "view_portfolio", "portfolio"}
            -> "PortfolioView"
      [] intent_str \in {"holdings.list", "holdings_list", "list_holdings"} -> "HoldingsList"
      [] intent_str \in {"holdings.add", "holdings_add", "add_holdings"} -> "HoldingsAdd"
      [] intent_str \in {"holdings.remove", "holdings_remove"} -> "HoldingsRemove"
      [] intent_str \in {"holdings.move", "holdings_move", "move_holdings"} -> "HoldingsMove"
      [] intent_str \in {"account.list", "account_list", "list_accounts"} -> "AccountList"
      [] intent_str \in {"account.add", "account_add", "add_account"} -> "AccountAdd"
      [] intent_str \in {"account.show", "account_show", "show_account"} -> "AccountShow"
      [] intent_str \in {"sync", "sync_exchange"} -> "Sync"
      [] intent_str \in {"config.show", "config_show"} -> "ConfigShow"
      [] intent_str \in {"config.set", "config_set"} -> "ConfigSet"
      [] intent_str = "help" -> "Help"
      [] intent_str = "ambiguous" -> "Ambiguous"
      [] intent_str \in {"out_of_scope", "out-of-scope"} -> "OutOfScope"
      [] OTHER -> "Unclear"

ClaudeProvider_parse_response(content, raw_input) ==
    IF content.kind = "json"
    THEN Ok(ParsedInput(ClaudeProvider_map_intent(content.reply.intent),
                        convert_entities(content.reply.entities),
                        content.reply.missing,
                        IF content.reply.confidence = NoNum THEN 80
                        ELSE content.reply.confidence,
                        raw_input))
    ELSE Ok(ParsedInput("Unclear", EmptyMap, <<>>, 0, raw_input))

ClaudeProvider_parse_input(input, net) ==
    IF net.post = "error"
    THEN Outcome(Err("request"), <<"POST /v1/messages">>, FALSE)
    ELSE IF net.post = "status"
    THEN Outcome(Err("Claude API error"), <<"POST /v1/messages">>, FALSE)
    ELSE IF net.post = "body"
    THEN Outcome(Err("decode"), <<"POST /v1/messages">>, FALSE)
    ELSE Outcome(ClaudeProvider_parse_response(net.content, input),
                 <<"POST /v1/messages">>, FALSE)

(***************************************************************************)
(* ai/mod.rs : AiMode, AiService                                           *)
(***************************************************************************)
\* impl FromStr for AiMode, then .ok() and unwrap_or_default()
AiMode_from_str(mode) ==
    CASE mode \in {"online", "claude"} -> "Online"
      [] mode \in {"offline", "local", "ollama"} -> "Offline"
      [] mode \in {"hybrid", "auto"} -> "Hybrid"
      [] mode \in {"disabled", "off", "none"} -> "Disabled"
      [] OTHER -> "Hybrid"

\* The configurations: the mode string of [ai] (NoneStr when absent) and
\* whether an Anthropic key is found in the file or in the environment.
AppConfigs == [mode : {NoneStr, "online", "offline", "hybrid", "disabled", "turbo"},
               api_key : BOOLEAN]

\* ClaudeProvider::from_config(config).ok()
ClaudeProvider_from_config(config) == config.api_key

\* OllamaProvider::from_config(config).ok(): the URL and the model default
OllamaProvider_from_config(config) == TRUE

AiService(mode, claude, ollama) == [mode |-> mode, claude |-> claude, ollama |-> ollama]

\* a constructor that keeps the local provider at hand in every mode
AiService_new_with_local_standby(config) ==
    LET mode == AiMode_from_str(config.mode)
    IN AiService(mode,
                 IF mode \in {"Online", "Hybrid"} THEN ClaudeProvider_from_config(config)
                 ELSE FALSE,
                 IF mode # "Disabled" THEN OllamaProvider_from_config(config)
                 ELSE FALSE)

\* a constructor that builds both providers whatever the mode
AiService_new_always_building(config) ==
    AiService(AiMode_from_str(config.mode), ClaudeProvider_from_config(config),
              OllamaProvider_from_config(config))

AiService_new(config) ==
    LET mode == AiMode_from_str(config.mode)
    IN AiService(mode,
                 IF mode \in {"Online", "Hybrid"} THEN ClaudeProvider_from_config(config)
                 ELSE FALSE,
                 IF mode \in {"Offline", "Hybrid"} THEN OllamaProvider_from_config(config)
                 ELSE FALSE)

is_available(service) ==
    service.mode # "Disabled" /\ (service.claude \/ service.ollama)

assess_complexity(input) ==
    IF Len(input) <= 3 THEN "Low"
    ELSE IF \/ contains_phrase(input, <<"and", "then">>)
            \/ contains_phrase(input, <<"after", "that">>)
            \/ contains(input, "also")
            \/ contains_phrase(input, <<"but", "first">>)
            \/ contains(input, "if")
            \/ contains(input, "when")
            \/ contains(input, "multiple")
            \/ contains_phrase(input, <<"all", "my">>)
            \/ contains(input, "everything")
    THEN "High"
    ELSE "Medium"

\* a selection that prefers the local provider at every complexity
select_provider_local_first(service, complexity) ==
    CASE service.mode = "Disabled" -> "None"
      [] service.mode = "Online" -> IF service.claude THEN "Claude" ELSE "None"
      [] service.mode = "Offline" -> IF service.ollama THEN "Ollama" ELSE "None"
      [] OTHER -> IF service.ollama THEN "Ollama"
                  ELSE IF service.claude THEN "Claude" ELSE "None"

select_provider(service, complexity) ==
    CASE service.mode = "Disabled" -> "None"
      [] service.mode = "Online" -> IF service.claude THEN "Claude" ELSE "None"
      [] service.mode = "Offline" -> IF service.ollama THEN "Ollama" ELSE "None"
      [] OTHER ->
            IF complexity \in {"Low", "Medium"}
            THEN IF service.ollama THEN "Ollama"
                 ELSE IF service.claude THEN "Claude" ELSE "None"
            ELSE IF service.claude THEN "Claude"
                 ELSE IF service.ollama THEN "Ollama" ELSE "None"

\* What one parse_input call did: the outcome of the provider it called and
\* the providers it called, in order.
Call(outcome, invoked) ==
    [result |-> outcome.result, requests |-> outcome.requests,
     warn |-> outcome.warn, invoked |-> invoked]

AiService_parse_input(service, input, net) ==
    LET selected == select_provider(service, assess_complexity(input))
    IN IF selected = "Claude" /\ service.claude
       THEN Call(ClaudeProvider_parse_input(input, net), <<"Claude">>)
       ELSE IF selected = "Ollama" /\ service.ollama
       THEN Call(OllamaProvider_parse_input(input, net), <<"Ollama">>)
       ELSE IF service.ollama
       THEN Call(OllamaProvider_parse_input(input, net), <<"Ollama">>)
       ELSE IF service.claude
       THEN Call(ClaudeProvider_parse_input(input, net), <<"Claude">>)
       ELSE Call(Outcome(Ok(ParsedInput("Unclear", EmptyMap, <<>>, 0, input)), <<>>, FALSE),
                 <<>>)

(***************************************************************************)
(* shell/shortcuts.rs                                                      *)
(***************************************************************************)
get_aliases ==
    [p |-> <<"portfolio">>, h |-> <<"holdings">>, a |-> <<"account">>, c |-> <<"config">>,
     s |-> <<"sync">>, m |-> <<"market">>, t |-> <<"tx">>, i |-> <<"import">>,
     bal |-> <<"portfolio">>, balance |-> <<"portfolio">>, hold |-> <<"holdings">>,
     acc |-> <<"account">>, accounts |-> <<"account", "list">>, acct |-> <<"account">>,
     cfg |-> <<"config">>, conf |-> <<"config">>, pr |-> <<"price">>, mkt |-> <<"market">>,
     tx |-> <<"tx">>, buy |-> <<"tx", "buy">>, sell |-> <<"tx", "sell">>,
     transfer |-> <<"tx", "transfer">>, xfer |-> <<"tx", "transfer">>,
     swap |-> <<"tx", "swap">>, ls |-> <<"holdings", "list">>,
     list |-> <<"holdings", "list">>, add |-> <<"holdings", "add">>,
     rm |-> <<"holdings", "remove">>, remove |-> <<"holdings", "remove">>,
     mv |-> <<"holdings", "move">>, move |-> <<"holdings", "move">>]

is_natural_language(input) ==
    /\ Len(input) >= 2
    /\ \/ /\ input[1] = "I"
          /\ Lower(input[2]) \in
                {"bought", "sold", "want", "need", "have", "had", "got", "transferred",
                 "moved", "swapped", "exchanged", "received", "sent", "added", "removed",
                 "think", "would", "am", "just", "recently", "already", "also",
                 "currently"}
       \/ Lower(input[1]) \in
                {"what", "how", "can", "could", "would", "is", "are", "do", "did"}

expand_shortcuts(input) ==
    IF is_natural_language(input) \/ input = <<>> THEN input
    ELSE IF Lower(input[1]) \in DOMAIN get_aliases
    THEN get_aliases[Lower(input[1])] \o Tail(input)
    ELSE input

(***************************************************************************)
(* shell/context.rs : ShellContext                                         *)
(***************************************************************************)
\* The strings the model puts between double quotes
Quotable == {"Binance", "Kraken", "Ledger", "BTC", "ETH", "btc", "3k"}

\* str::trim_matches('"'), and the quote removal of shell_words::split
Unquote(w) ==
    IF \E q \in Quotable : w = Quote(q) THEN CHOOSE q \in Quotable : w = Quote(q) ELSE w

\* every character an ASCII upper-case letter, and 2 to 5 of them
LooksLikeAsset(w) == \E i \in DOMAIN known_symbols : known_symbols[i][2] = w

update_from_command(ctx, args) ==
    LET flags == { i \in DOMAIN args :
                     args[i] \in {"--account", "--from", "--to"} /\ i + 1 <= Len(args) }
        last == CHOOSE i \in flags : \A j \in flags : j <= i
        pos == IF Len(args) > 2 /\ args[2] \in {"price", "market"} THEN 3
               ELSE IF Len(args) > 3 /\ args[2] \in {"tx", "holdings"} THEN 4
               ELSE 0
    IN [last_account |-> IF flags # {} THEN Unquote(args[last + 1]) ELSE ctx.last_account,
        last_asset |-> IF pos # 0 /\ pos <= Len(args) /\ LooksLikeAsset(args[pos])
                       THEN args[pos] ELSE ctx.last_asset]

apply_defaults(ctx, args) ==
    IF /\ \E i \in DOMAIN args : args[i] \in {"add", "remove", "set", "buy", "sell"}
       /\ ~Contains(args, "--account")
       /\ ctx.last_account # NoneStr
    THEN args \o <<"--account", Quote(ctx.last_account)>>
    ELSE args

(***************************************************************************)
(* cli/mod.rs : the subcommands the shell is given here, as clap parses    *)
(* them                                                                    *)
(***************************************************************************)
ValueFlags ==
    {"--account", "--price", "--from", "--to", "--cost", "--type", "--category"}

\* required = TRUE positionals and flags, and the flags allowed, by subcommand
CommandShape(path, positionals, at_least, required, allowed) ==
    [path |-> path, positionals |-> positionals, at_least |-> at_least,
     required |-> required, allowed |-> allowed]

Commands ==
    { CommandShape(<<"price">>, 1, TRUE, {}, {}),
      CommandShape(<<"market">>, 1, FALSE, {}, {}),
      CommandShape(<<"portfolio">>, 0, FALSE, {}, {"--account", "--category"}),
      CommandShape(<<"sync">>, 0, FALSE, {}, {"--account"}),
      CommandShape(<<"tx", "buy">>, 2, FALSE, {"--account", "--price"}, {}),
      CommandShape(<<"tx", "sell">>, 2, FALSE, {"--account", "--price"}, {}),
      CommandShape(<<"tx", "transfer">>, 2, FALSE, {"--from", "--to"}, {}),
      CommandShape(<<"tx", "swap">>, 4, FALSE, {"--account"}, {}),
      CommandShape(<<"holdings", "list">>, 0, FALSE, {}, {"--account"}),
      CommandShape(<<"holdings", "add">>, 2, FALSE, {"--account"}, {"--cost"}),
      CommandShape(<<"holdings", "remove">>, 2, FALSE, {"--account"}, {}),
      CommandShape(<<"holdings", "move">>, 2, FALSE, {"--from", "--to"}, {}),
      CommandShape(<<"account", "list">>, 0, FALSE, {}, {}),
      CommandShape(<<"account", "add">>, 1, FALSE, {"--type", "--category"}, {}),
      CommandShape(<<"account", "show">>, 1, FALSE, {}, {}),
      CommandShape(<<"config", "show">>, 0, FALSE, {}, {}),
      CommandShape(<<"config", "set">>, 2, FALSE, {}, {}) }

AccountTypeArg ==
    {"exchange", "hardware-wallet", "software-wallet", "custodial-service", "bank"}

\* Cli::try_parse_from(full_args).is_ok()
try_parse_from(full_args) ==
    \E shape \in Commands :
        LET k == Len(shape.path) + 1
            flags == { i \in (k + 1)..Len(full_args) : full_args[i] \in ValueFlags }
            values == { i + 1 : i \in flags }
            positionals == ((k + 1)..Len(full_args)) \ (flags \cup values)
        IN /\ Len(full_args) >= k
           /\ SubSeq(full_args, 2, k) = shape.path
           /\ \A i \in flags : i + 1 <= Len(full_args) /\ i + 1 \notin flags
           /\ \A i, j \in flags : full_args[i] = full_args[j] => i = j
           /\ { full_args[i] : i \in flags } \subseteq shape.required \cup shape.allowed
           /\ shape.required \subseteq { full_args[i] : i \in flags }
           /\ IF shape.at_least THEN Cardinality(positionals) >= shape.positionals
              ELSE Cardinality(positionals) = shape.positionals
           /\ \A i \in flags : full_args[i] = "--type" => full_args[i + 1] \in AccountTypeArg

(***************************************************************************)
(* shell/mod.rs : Shell                                                    *)
(***************************************************************************)
shell_words_split(input) == [i \in DOMAIN input |-> Unquote(input[i])]

cli_commands ==
    {"price", "market", "portfolio", "holdings", "account", "category", "tx", "sync",
     "import", "config", "status"}

\* What execute_cli_command did: the context after it, the arguments handed
\* to clap and whether the command was run.
Executed(ctx, full_args, ran) == [context |-> ctx, full_args |-> full_args, ran |-> ran]

execute_cli_command(ctx, input) ==
    LET args == shell_words_split(expand_shortcuts(input))
        full_args == apply_defaults(ctx, <<"cryptofolio">> \o args)
    IN IF args = <<>> THEN Executed(ctx, <<>>, FALSE)
       ELSE IF try_parse_from(full_args)
       THEN Executed(update_from_command(ctx, full_args), full_args, TRUE)
       ELSE Executed(ctx, full_args, FALSE)

Shell_build_command(st, intent) ==
    to_cli_command(ParsedInput(intent, st.collected_entities, <<>>, 100, <<>>))

(***************************************************************************)
(* State.  service, warned, state and context are the program's: the       *)
(* shell's AiService, notifications::FALLBACK_WARNING_SHOWN, the           *)
(* ConversationState and the ShellContext.  call and prev record the last  *)
(* two parse_input calls (text, network outcome, result, providers called, *)
(* requests sent); calls counts them.  shown is what the shell last        *)
(* displayed or ran; op follows the operation in progress.  notices       *)
(* counts the fallback warnings displayed; callers holds, for each thread   *)
(* inside warn_ai_fallback, its position and the value its swap returned.   *)
(***************************************************************************)
VARIABLES service, warned, state, context, call, prev, calls, shown, op,
          notices, callers

aiVars == <<service, warned, call, prev, calls, notices, callers>>
shellVars == <<state, context, shown, op>>
vars == <<service, warned, state, context, call, prev, calls, shown, op,
          notices, callers>>

\* a thread: "out" of warn_ai_fallback or "swapped" (past the swap, which
\* returned old), and the number of its calls so far
Caller(pc, old, n) == [pc |-> pc, old |-> old, n |-> n]

NoCallers == [t \in 1..MaxCallers |-> Caller("out", FALSE, 0)]

ConversationState_new ==
    [history |-> <<>>, current_intent |-> "None", collected_entities |-> EmptyMap,
     missing_entities |-> <<>>, confirmation_pending |-> FALSE,
     last_account |-> NoneStr, last_asset |-> NoneStr]

ShellContext_new == [last_account |-> NoneStr, last_asset |-> NoneStr]

NoCall ==
    [made |-> FALSE, text |-> <<>>,
     net |-> NetOutcome(FALSE, "none", Content("none", NoReply)),
     result |-> Err("none"), requests |-> <<>>, warn |-> FALSE, invoked |-> <<>>]

\* What the shell last displayed or ran: the variant of the action (or what
\* the shell itself did), the field asked, the command, and for an Execute
\* the intent carried out and whether its operation had shown a Confirm.
Shown(kind, field, command, intent, prompted) ==
    [kind |-> kind, field |-> field, command |-> command, intent |-> intent,
     prompted |-> prompted]

NoShown == Shown("None", NoneStr, NoCommand, "None", FALSE)

\* The operation in progress: whether a Confirm was shown, the fields asked
\* in order, the answers typed, whether each was a valid value of the field
\* last asked, and whether process took the account from the context.
Operation(prompted, asked, answers, valid, from_context) ==
    [prompted |-> prompted, asked |-> asked, answers |-> answers, valid |-> valid,
     from_context |-> from_context]

NoOp == Operation(FALSE, <<>>, 0, TRUE, FALSE)

\* Utterances in natural language
Texts ==
    { <<"what's", "the", "price", "of", "bitcoin">>,
      <<"what's", "the", "price">>,
      <<"I", "bought", "0.1", "btc", "at", "95000", "on", "binance">>,
      <<"I", "bought", "0.1", "btc">>,
      <<"I", "also", "bought", "2", "eth", "on", "Kraken">>,
      <<"I", "want", "to", "sell", "some", "eth">>,
      <<"please", "transfer", "my", "coins">>,
      <<"please", "sync">>,
      <<"what", "can", "you", "do">>,
      <<"asdlkj", "qweh">> }

(***************************************************************************)
(* The parsing engine alone: a service built by AiService::new from any    *)
(* configuration, then parse_input calls with any text and any network     *)
(* outcome.                                                                *)
(***************************************************************************)
AiTexts ==
    { <<"what's", "the", "price", "of", "bitcoin">>,
      <<"what's", "the", "price">>,
      <<"I", "also", "bought", "2", "eth", "on", "Kraken">>,
      <<"asdlkj", "qweh">> }

AiReplies ==
    { r \in Replies : r.intent \in {"tx.sell", "banana"} }

\* The server down, or up with each outcome of the inference request
AiNets ==
    { NetOutcome(FALSE, "error", Content("none", NoReply)) }
    \cup { n \in NetOutcomes : n.health /\ n.content.reply \in AiReplies \cup {NoReply} }

InitShellIdle ==
    /\ notices = 0
    /\ callers = NoCallers
    /\ state = ConversationState_new
    /\ context = ShellContext_new
    /\ shown = NoShown
    /\ op = NoOp

InitAi ==
    /\ \E config \in AppConfigs : service = AiService_new(config)
    /\ warned = FALSE
    /\ call = NoCall
    /\ prev = NoCall
    /\ calls = 0
    /\ InitShellIdle

\* notifications::warn_ai_fallback: FALLBACK_WARNING_SHOWN.swap(true)
warn_ai_fallback(flag) == TRUE

ParseInput(input, net) ==
    /\ calls < MaxCalls
    /\ \E c \in {AiService_parse_input(service, input, net)} :
          /\ call' = [made |-> TRUE, text |-> input, net |-> net, result |-> c.result,
                      requests |-> c.requests, warn |-> c.warn, invoked |-> c.invoked]
          /\ warned' = IF c.warn THEN warn_ai_fallback(warned) ELSE warned
          /\ notices' = IF c.warn /\ ~warned THEN notices + 1 ELSE notices
    /\ prev' = call
    /\ calls' = calls + 1
    /\ UNCHANGED <<service, shellVars, callers>>

NextAi == \E input \in AiTexts, net \in AiNets : ParseInput(input, net)

SpecAi == InitAi /\ [][NextAi]_vars

\* parse_input in Hybrid mode as a function of the providers held, whatever
\* built the service
InitRoute ==
    /\ \E c \in BOOLEAN, o \in BOOLEAN : service = AiService("Hybrid", c, o)
    /\ warned = FALSE
    /\ call = NoCall
    /\ prev = NoCall
    /\ calls = 0
    /\ InitShellIdle

SpecRoute == InitRoute /\ [][NextAi]_vars

(***************************************************************************)
(* Properties of the parsing engine                                        *)
(***************************************************************************)
Unclear0(input) == Ok(ParsedInput("Unclear", EmptyMap, <<>>, 0, input))

\* The provider called could not get a parseable reply: no connection or a
\* timeout, a non-success status, an undecodable envelope, or text that is
\* not the expected JSON (for Ollama, also a failed health check).
ProviderFailed(c) ==
    /\ c.made
    /\ c.invoked # <<>>
    /\ \/ c.net.post # "ok"
       \/ c.net.content.kind = "garbage"
       \/ c.invoked = <<"Ollama">> /\ ~c.net.health

InferenceRequests(requests) ==
    Cardinality({ i \in DOMAIN requests :
                    requests[i] \in {"POST /api/generate", "POST /v1/messages"} })

\* C2: AiService::parse_input returns a ParsedInput and never an error,
\* whatever the text, the mode, the providers configured and the outcome of
\* the network call.
C2_ParseInputNeverErr == call.made => call.result.ok

\* C7: whenever the network call of the provider called (Claude or Ollama)
\* fails, times out or returns text that is not the expected JSON, the call
\* returns exactly rule_based_fallback of the same text.
C7_FailureGivesExtractorResult ==
    ProviderFailed(call) => call.result = rule_based_fallback(call.text)

\* C8: in Hybrid mode parse_input calls the local provider at Low and Medium
\* complexity and the cloud provider at High complexity when that provider
\* is configured, the other provider when only the other is configured, and
\* no provider, returning Unclear at confidence 0, when neither is.
C8_HybridRouting ==
    (call.made /\ service.mode = "Hybrid") =>
        LET complexity == assess_complexity(call.text)
        IN /\ (complexity \in {"Low", "Medium"} /\ service.ollama)
                => call.invoked = <<"Ollama">>
           /\ (complexity = "High" /\ service.claude) => call.invoked = <<"Claude">>
           /\ (service.claude /\ ~service.ollama) => call.invoked = <<"Claude">>
           /\ (service.ollama /\ ~service.claude) => call.invoked = <<"Ollama">>
           /\ (~service.ollama /\ ~service.claude)
                => /\ call.invoked = <<>>
                   /\ call.requests = <<>>
                   /\ call.result = Unclear0(call.text)

C8_Witness ==
    /\ service = AiService("Hybrid", TRUE, TRUE)
    /\ prev.made /\ assess_complexity(prev.text) = "Low" /\ prev.invoked = <<"Ollama">>
    /\ call.made /\ assess_complexity(call.text) = "High" /\ call.invoked = <<"Claude">>

\* C9: a service built by AiService::new in Disabled mode never calls the
\* Claude or the Ollama provider; every call returns Unclear at confidence 0.
C9_DisabledNeverCalls ==
    (call.made /\ service.mode = "Disabled") =>
        /\ call.invoked = <<>>
        /\ call.requests = <<>>
        /\ call.result = Unclear0(call.text)
        /\ ~warned

C9_Witness ==
    /\ service.mode = "Disabled"
    /\ prev.made /\ prev.result = Unclear0(prev.text)
    /\ call.made /\ call.result = Unclear0(call.text)

\* C10: one parse_input call invokes at most one provider, which sends at
\* most one inference request, also when the call fails; a later call that
\* fails in the same way sends the same requests and gives the same kind of
\* result, and the same result for the same text.
C10_NoRetry ==
    /\ call.made => /\ Len(call.invoked) <= 1
                    /\ InferenceRequests(call.requests) <= 1
    /\ (ProviderFailed(prev) /\ ProviderFailed(call)
            /\ prev.net = call.net /\ prev.invoked = call.invoked)
          => /\ prev.requests = call.requests
             /\ prev.result.ok = call.result.ok
             /\ prev.text = call.text => prev.result = call.result

C10_Witness ==
    /\ ProviderFailed(prev) /\ ProviderFailed(call)
    /\ prev.net = call.net /\ call.net.health /\ call.net.post = "error"
    /\ prev.invoked = <<"Ollama">> /\ call.invoked = <<"Ollama">>
    /\ prev.text # call.text
    /\ call.requests = <<"GET /api/tags", "POST /api/generate">>
    /\ call.result = rule_based_fallback(call.text)

\* The intents process answers itself, without an operation
ControlIntents == {"Unclear", "Ambiguous", "OutOfScope", "Help"}

\* Every required entity of the intent is an entity of the result or a name
\* of its missing list
AccountsForRequired(parsed) ==
    \A i \in DOMAIN required_entities(parsed.intent) :
        \/ required_entities(parsed.intent)[i] \in DOMAIN parsed.entities
        \/ Contains(parsed.missing, required_entities(parsed.intent)[i])

\* C12: whenever a call returns the result of rule_based_fallback for its
\* text and the intent is not a control intent, every required entity of the
\* intent is a key of the entities or an element of the missing list.
C12_ExtractorAccountsForRequired ==
    (call.made /\ call.result = rule_based_fallback(call.text)
        /\ call.result.val.intent \notin ControlIntents)
      => AccountsForRequired(call.result.val)

(***************************************************************************)
(* The interactive shell: Shell::run reads a line (never empty) and hands  *)
(* it to execute_input, or reads Ctrl-C.                                   *)
(***************************************************************************)
\* The configurations the shell is started with
ShellConfigs == { c \in AppConfigs : c.mode \in {"hybrid", "disabled"} /\ c.api_key }

\* Lines typed at the prompt as commands
CliLines ==
    { <<"tx", "buy", "BTC", "0.1", "--account", "Binance", "--price", "95000">>,
      <<"buy", "ETH", "2", "--price", "95000">>,
      <<"p">> }

\* Lines typed to a question
AnswerLines == { <<"3k">>, <<"Kraken">> }

\* Lines typed to "Confirm?"
ConfirmLines == { <<"Yes">>, <<"n">>, <<"maybe">>, <<"Yes", "please">> }

\* The server is down: no health check, no connection
Down == NetOutcome(FALSE, "error", Content("none", NoReply))

\* The model answers with text that holds no JSON object
Garbage == NetOutcome(TRUE, "ok", Content("garbage", NoReply))

\* The model answers with the reply whose intent string and missing list
\* are these
Json(intent, missing) ==
    { NetOutcome(TRUE, "ok", Content("json", r)) :
        r \in { x \in Replies : x.intent = intent /\ x.missing = missing } }

Exchange(input, net) == [input |-> input, net |-> net]

\* The utterances typed at the prompt, each with what the network may do
\* while it is parsed
Exchanges ==
    { Exchange(t, Down) : t \in Texts }
    \cup { Exchange(<<"what's", "the", "price">>, Garbage),
           Exchange(<<"I", "also", "bought", "2", "eth", "on", "Kraken">>, Garbage) }
    \cup { Exchange(<<"what's", "the", "price", "of", "bitcoin">>, n) :
            n \in Json("price.check", <<>>) }
    \cup { Exchange(<<"I", "bought", "0.1", "btc", "at", "95000", "on", "binance">>, n) :
            n \in Json("tx.buy", <<>>) }
    \cup { Exchange(<<"I", "bought", "0.1", "btc">>, n) :
            n \in Json("tx.buy", <<"asset">>) \cup Json("tx.buy", <<"account">>) }
    \cup { Exchange(<<"I", "also", "bought", "2", "eth", "on", "Kraken">>, n) :
            n \in Json("holdings.add", <<"account">>) \cup Json("ambiguous", <<>>)
                  \cup Json("banana", <<>>) }
    \cup { Exchange(<<"I", "want", "to", "sell", "some", "eth">>, n) :
            n \in Json("tx.sell", <<"account">>) }
    \cup { Exchange(<<"please", "transfer", "my", "coins">>, n) :
            n \in Json("tx.transfer", <<>>) \cup Json("out_of_scope", <<>>) }
    \cup { Exchange(<<"what", "can", "you", "do">>, n) :
            n \in Json("holdings", <<>>) \cup Json("account.show", <<"name">>)
                  \cup Json("account.add", <<"account_type", "category">>) }

Init ==
    /\ \E config \in ShellConfigs : service = AiService_new(config)
    /\ warned = FALSE
    /\ call = NoCall
    /\ prev = NoCall
    /\ calls = 0
    /\ InitShellIdle

\* a routing that looks at the confirmation flag only
Idle_unless_confirming == ~state.confirmation_pending

Idle == ~state.confirmation_pending /\ state.current_intent = "None"

\* execute_input hands the line to execute_cli_command
RoutesToCli(input) ==
    LET args == shell_words_split(expand_shortcuts(input))
    IN \/ args # <<>> /\ Lower(args[1]) \in cli_commands
       \/ ~is_available(service)

\* Shell::handle_conversation_action for an Execute
RunExecute(st, ctx, command) ==
    execute_cli_command(
        [last_account |-> IF st.last_account # NoneStr THEN st.last_account
                          ELSE ctx.last_account,
         last_asset |-> IF st.last_asset # NoneStr THEN st.last_asset
                        ELSE ctx.last_asset],
        command)

\* execute_input, idle, a command line: execute_cli_command
ExecuteCliCommand(input) ==
    /\ Idle
    /\ RoutesToCli(input)
    /\ \E done \in {execute_cli_command(context, expand_shortcuts(input))} :
          /\ context' = done.context
          /\ shown' = Shown(IF done.ran THEN "Ran" ELSE "Rejected", NoneStr,
                            done.full_args, "None", FALSE)
    /\ UNCHANGED <<state, op, aiVars>>

\* process_natural_language once parse_input has returned Ok(parsed)
ProcessParsed(st1, parsed) ==
    \E step \in {process(st1, parsed)} :
        LET from_context == /\ Contains(parsed.missing, "account")
                            /\ Contains(required_entities(parsed.intent), "account")
                            /\ st1.last_account # NoneStr
        IN /\ state' = step.state
           /\ context' = IF step.action.kind = "Execute"
                         THEN RunExecute(step.state, context, step.action.command).context
                         ELSE context
           /\ shown' = Shown(step.action.kind, step.action.field, step.action.command,
                             IF step.action.kind = "Execute" THEN parsed.intent
                             ELSE "None", FALSE)
           /\ op' = CASE step.state.confirmation_pending ->
                            Operation(TRUE, <<>>, 0, TRUE, from_context)
                      [] step.state.current_intent # "None" ->
                            Operation(FALSE, <<step.action.field>>, 0, TRUE, from_context)
                      [] OTHER -> NoOp

\* execute_input, idle, any other line: process_natural_language
ProcessNaturalLanguage(input, net) ==
    /\ Idle
    /\ ~RoutesToCli(input)
    /\ Len(state.history) < MaxTurns
    /\ \E c \in {AiService_parse_input(service, input, net)},
          st1 \in {[state EXCEPT !.last_account = context.last_account,
                                 !.last_asset = context.last_asset]} :
          /\ warned' = IF c.warn THEN warn_ai_fallback(warned) ELSE warned
          /\ notices' = IF c.warn /\ ~warned THEN notices + 1 ELSE notices
          /\ IF ~c.result.ok
             THEN /\ state' = st1
                  /\ shown' = Shown("Error", NoneStr, NoCommand, "None", FALSE)
                  /\ UNCHANGED <<context, op>>
             ELSE ProcessParsed(st1, c.result.val)
    /\ UNCHANGED <<service, call, prev, calls, callers>>

\* execute_input while confirmation_pending: Shell::handle_confirmation
HandleConfirmation(input) ==
    /\ state.confirmation_pending
    /\ \E step \in {handle_confirmation(state, input)} :
          /\ state' = step.state
          /\ context' = IF step.action.kind = "Execute"
                        THEN RunExecute(step.state, context, step.action.command).context
                        ELSE context
          /\ shown' = Shown(step.action.kind, step.action.field, step.action.command,
                            IF step.action.kind = "Execute" THEN state.current_intent
                            ELSE "None",
                            step.action.kind = "Execute" /\ op.prompted)
          /\ op' = IF step.action.kind \in {"Execute", "Cancel"} THEN NoOp ELSE op
    /\ UNCHANGED aiVars

\* handle_conversation_input once the answer has given an entity for field
CaptureEntity(field, entity, answered) ==
    \E st1 \in {[state EXCEPT !.collected_entities = MapInsert(@, field, entity),
                              !.missing_entities = SeqFilterOut(@, field)]} :
        IF st1.missing_entities # <<>>
        THEN /\ state' = st1
             /\ shown' = Shown("Question", st1.missing_entities[1], NoCommand, "None", FALSE)
             /\ op' = [answered EXCEPT !.asked = Append(@, st1.missing_entities[1])]
             /\ UNCHANGED context
        ELSE IF requires_confirmation(state.current_intent)
        THEN /\ state' = [st1 EXCEPT !.confirmation_pending = TRUE]
             /\ shown' = Shown("Confirm", NoneStr, NoCommand, "None", FALSE)
             /\ op' = [answered EXCEPT !.prompted = TRUE]
             /\ UNCHANGED context
        ELSE \E command \in {Shell_build_command(st1, state.current_intent)} :
                /\ state' = clear_operation(st1)
                /\ context' = execute_cli_command(context, command).context
                /\ shown' = Shown("Execute", NoneStr, command, state.current_intent,
                                  op.prompted)
                /\ op' = NoOp

\* execute_input while an intent is set and no confirmation is pending:
\* Shell::handle_conversation_input
HandleConversationInput(input) ==
    /\ ~state.confirmation_pending
    /\ state.current_intent # "None"
    /\ op.answers < MaxAnswers
    /\ \E answered \in
            {[op EXCEPT !.answers = @ + 1,
                        !.valid = /\ @
                                  /\ op.asked # <<>>
                                  /\ handle_entity_input(input, op.asked[Len(op.asked)])
                                        # NoEntity]} :
          IF state.missing_entities = <<>>
          THEN /\ shown' = Shown("Nothing", NoneStr, NoCommand, "None", FALSE)
               /\ op' = answered
               /\ UNCHANGED <<state, context>>
          ELSE \E entity \in {handle_entity_input(input, state.missing_entities[1])} :
                  IF entity = NoEntity
                  THEN /\ shown' = Shown("Invalid", NoneStr, NoCommand, "None", FALSE)
                       /\ op' = answered
                       /\ UNCHANGED <<state, context>>
                  ELSE CaptureEntity(state.missing_entities[1], entity, answered)
    /\ UNCHANGED aiVars

\* a Ctrl-C that prints "^C" and reads the next line
Interrupt_only_printing ==
    /\ shown' = Shown("Interrupted", NoneStr, NoCommand, "None", FALSE)
    /\ UNCHANGED <<state, op, context, aiVars>>

\* Ctrl-C at the prompt: ReadlineError::Interrupted
Interrupt ==
    /\ state' = clear_operation(state)
    /\ shown' = Shown("Interrupted", NoneStr, NoCommand, "None", FALSE)
    /\ op' = NoOp
    /\ UNCHANGED <<context, aiVars>>

Next ==
    \/ \E input \in CliLines \cup Texts : ExecuteCliCommand(input)
    \/ \E x \in Exchanges : ProcessNaturalLanguage(x.input, x.net)
    \/ \E input \in ConfirmLines : HandleConfirmation(input)
    \/ \E input \in AnswerLines : HandleConversationInput(input)
    \/ Interrupt

Spec == Init /\ [][Next]_vars

(***************************************************************************)
(* Properties of the dialogue                                              *)
(***************************************************************************)
ConfirmIntents ==
    { "TxBuy", "TxSell", "TxTransfer", "TxSwap", "HoldingsAdd", "HoldingsRemove",
      "HoldingsMove", "AccountAdd" }

Collecting == state.current_intent # "None" /\ ~state.confirmation_pending

\* C1: an Execute for an intent that requires confirmation is emitted only
\* after a Confirm was shown in the same operation, whatever the sequence of
\* utterances, answers, confirmation replies and interrupts.
C1_ConfirmationGate ==
    (shown.kind = "Execute" /\ shown.intent \in ConfirmIntents) => shown.prompted

C1_Witness ==
    /\ shown.kind = "Execute"
    /\ shown.intent = "TxSell"
    /\ shown.prompted
    /\ shown.command # NoCommand
    /\ Idle

\* C3: while every answer is a valid value of the field last asked, an
\* operation is out of the collecting state after at most
\* len(required_entities(intent)) answers.
C3_SlotFillingConverges ==
    (Collecting /\ op.valid) => op.answers < Len(required_entities(state.current_intent))

\* C4: confirmation_pending implies that current_intent is set, requires
\* confirmation, and has every required entity among collected_entities.
C4_PendingMeansComplete ==
    state.confirmation_pending =>
        /\ state.current_intent \in ConfirmIntents
        /\ \A i \in DOMAIN required_entities(state.current_intent) :
              required_entities(state.current_intent)[i] \in DOMAIN state.collected_entities

\* C5: whenever current_intent is set, missing_entities is the required
\* entities of the intent less the keys of collected_entities.
C5_MissingIsRecomputed ==
    state.current_intent # "None" =>
        state.missing_entities = calculate_missing(state, state.current_intent)

\* C6: when process fills the account from last_account, the account is a
\* collected entity and no question of the operation asks for it.
C6_AccountNeverAsked ==
    op.from_context =>
        /\ "account" \in DOMAIN state.collected_entities
        /\ ~Contains(op.asked, "account")

\* The replies to "Confirm?" that decide, trimmed and in lower case
Accepting == {"y", "yes", ""}
Declining == {"n", "no", "cancel", "abort"}

\* C13: while a confirmation is pending, a reply that is, trimmed and in
\* lower case, none of y, yes, empty, n, no, cancel, abort leaves the whole
\* conversation state as it is and is answered by Clarify for the field
\* "confirmation"; y, yes and empty give Execute, n, no, cancel and abort
\* give Cancel, and these end the confirming state.
C13_OnlySevenRepliesDecide ==
    [][\A input \in ConfirmLines :
          HandleConfirmation(input) =>
             LET reply == Join(to_lowercase(input))
             IN CASE reply \in Accepting ->
                        shown'.kind = "Execute" /\ ~state'.confirmation_pending
                  [] reply \in Declining ->
                        shown'.kind = "Cancel" /\ ~state'.confirmation_pending
                  [] OTHER ->
                        /\ state' = state
                        /\ shown'.kind = "Clarify"
                        /\ shown'.field = "confirmation"]_vars

C13_Witness ==
    /\ state.confirmation_pending
    /\ state.current_intent = "TxBuy"
    /\ shown.kind = "Clarify"
    /\ shown.field = "confirmation"

\* The answer is no value of the field: text that is no number for a
\* numeric field, empty text for another field
NoValueFor(input, field) ==
    IF field \in {"quantity", "price", "cost_basis", "fee"}
    THEN Len(input) # 1 \/ ParseF64(CleanNumber(input[1])) = NoNum
    ELSE input = <<>>

\* C14: while an operation collects entities, an answer that is no value of
\* the field expected (the first of missing_entities) leaves the whole
\* conversation state as it is, so the same field is expected for the next
\* answer, and the shell only says that the value is not valid.
C14_BadAnswerChangesNothing ==
    [][\A input \in AnswerLines :
          (/\ HandleConversationInput(input)
           /\ state.missing_entities # <<>>
           /\ NoValueFor(input, state.missing_entities[1]))
             => /\ state' = state
                /\ context' = context
                /\ shown'.kind = "Invalid"]_vars

C14_Witness ==
    /\ Collecting
    /\ shown.kind = "Invalid"
    /\ state.missing_entities # <<>>
    /\ state.missing_entities[1] = "price"
    /\ op.answers = 2

\* C15: a step that produces an Execute or a Cancel (process, the reply to
\* a confirmation, or the capture of the last entity of an intent without
\* confirmation) ends with current_intent unset, collected_entities and
\* missing_entities empty and confirmation_pending false; the history is
\* the one before the step, with the turn of the utterance added when the
\* step is process.
C15_ExecuteAndCancelClear ==
    [][shown'.kind \in {"Execute", "Cancel"} =>
          /\ state'.current_intent = "None"
          /\ state'.collected_entities = EmptyMap
          /\ state'.missing_entities = <<>>
          /\ ~state'.confirmation_pending
          /\ IF Idle
             THEN /\ state'.history # <<>>
                  /\ state'.history =
                        add_turn(state, "User",
                                 state'.history[Len(state'.history)].content).history
             ELSE state'.history = state.history]_vars

C15_Witness ==
    /\ shown.kind = "Cancel"
    /\ Idle
    /\ state.collected_entities = EmptyMap
    /\ state.missing_entities = <<>>
    /\ Len(state.history) = 2

\* C17: Ctrl-C, in whatever state it is read, leaves the conversation idle
\* (no intent, no collected and no missing entity, no confirmation pending),
\* keeps history, last_account and last_asset and the shell context, and
\* calls no provider; the next line is then routed as one typed at an
\* idle prompt.
C17_InterruptGoesIdle ==
    [][Interrupt =>
          /\ state' = [state EXCEPT !.current_intent = "None",
                                     !.collected_entities = EmptyMap,
                                     !.missing_entities = <<>>,
                                     !.confirmation_pending = FALSE]
          /\ Idle'
          /\ UNCHANGED <<context, service, warned, call, prev, calls>>]_vars

C17_Witness ==
    /\ shown.kind = "Interrupted"
    /\ Idle
    /\ state.collected_entities = EmptyMap
    /\ state.history # <<>>
    /\ state.last_account = "Kraken"

\* C20: an account (an asset) a turn has recorded in the conversation state
\* is never forgotten: through later turns, cancellations and interrupts
\* last_account (last_asset) stays set, so that it is still the default of
\* the next utterance after the operation that recorded it was cancelled.
C20_ContextSurvives ==
    [][/\ state.last_account # NoneStr => state'.last_account # NoneStr
       /\ state.last_asset # NoneStr => state'.last_asset # NoneStr]_vars

(***************************************************************************)
(* The dialogue engine alone: ConversationManager::process on the parsed   *)
(* inputs a provider can return, in any state process leaves behind.  call *)
(* records the parsed input handed to process, shown the action returned.  *)
(***************************************************************************)
\* What the local provider returns: the extractor's result for each
\* utterance, and each reply of the model as parse_response converts it
ParsedSamples ==
    { rule_based_fallback(t).val : t \in Texts }
    \cup { OllamaProvider_parse_response(Content("json", r), <<"please", "sync">>).val :
            r \in Replies }

Process(parsed) ==
    /\ \E step \in {process(state, parsed)} :
          /\ state' = step.state
          /\ shown' = Shown(step.action.kind, step.action.field, step.action.command,
                            IF step.action.kind = "Execute" THEN parsed.intent ELSE "None",
                            FALSE)
    /\ call' = [NoCall EXCEPT !.made = TRUE, !.text = parsed.raw_input,
                              !.result = Ok(parsed)]
    /\ prev' = call
    /\ calls' = calls + 1
    /\ UNCHANGED <<service, warned, context, op, notices, callers>>

NextProcess == calls < MaxProcessed /\ \E parsed \in ParsedSamples : Process(parsed)

SpecProcess == Init /\ [][NextProcess]_vars

\* One long conversation: process on a request for help and on a request to
\* sync, in any order, more often than the history has room for
HistorySamples ==
    { rule_based_fallback(t).val : t \in {<<"what", "can", "you", "do">>, <<"please", "sync">>} }

NextHistory == calls < MaxHistory /\ \E parsed \in HistorySamples : Process(parsed)

SpecHistory == Init /\ [][NextHistory]_vars

(***************************************************************************)
(* Properties of the command synthesis                                     *)
(***************************************************************************)
NumberFields == {"quantity", "price", "from_quantity", "to_quantity"}

\* The entity is there and has the type the field expects
WellTyped(entities, key) ==
    /\ key \in DOMAIN entities
    /\ IF key = "symbols" THEN entities[key].t = "Symbols" /\ entities[key].l # <<>>
       ELSE IF key \in NumberFields THEN entities[key].t = "Number"
       ELSE entities[key].t = "String"

\* The intent has a command and every required entity is there, well typed
LegallyComplete(parsed) ==
    /\ to_command(parsed.intent) # <<>>
    /\ \A i \in DOMAIN required_entities(parsed.intent) :
          WellTyped(parsed.entities, required_entities(parsed.intent)[i])

\* The words one entity may be rendered as, one set for each word in order
Renderings(entity) ==
    IF entity.t = "Symbols" THEN [i \in DOMAIN entity.l |-> {entity.l[i]}]
    ELSE IF entity.t = "Number" THEN << {FmtNum(entity.n)} >>
    ELSE << {entity.s, Quote(entity.s)} >>

RECURSIVE RequiredRenderings(_, _)
RequiredRenderings(entities, required) ==
    IF required = <<>> THEN <<>>
    ELSE Renderings(entities[Head(required)])
         \o RequiredRenderings(entities, Tail(required))

\* words holds a word of each set of values, in the order of values
RECURSIVE InOrder(_, _)
InOrder(values, words) ==
    IF values = <<>> THEN TRUE
    ELSE IF words = <<>> THEN FALSE
    ELSE IF Head(words) \in Head(values) THEN InOrder(Tail(values), Tail(words))
    ELSE InOrder(values, Tail(words))

\* C11: for a parsed input whose intent has a command and whose entities
\* hold every required entity of the intent with the expected type,
\* to_cli_command gives a command that is not empty, starts with the base
\* command of the intent and holds the value of every required entity in
\* the order of required_entities.
C11_CommandCarriesRequired ==
    (call.made /\ LegallyComplete(call.result.val)) =>
        LET parsed == call.result.val
            base == to_command(parsed.intent)
            command == to_cli_command(parsed)
        IN /\ Len(command) >= Len(base)
           /\ SubSeq(command, 1, Len(base)) = base
           /\ InOrder(RequiredRenderings(parsed.entities, required_entities(parsed.intent)),
                      SubSeq(command, Len(base) + 1, Len(command)))

(***************************************************************************)
(* Properties of the control intents                                       *)
(***************************************************************************)
OperationFields(st) ==
    <<st.current_intent, st.collected_entities, st.missing_entities,
      st.confirmation_pending>>

\* C18: process answers an Unclear input with Clarify for the field
\* "intent", an Ambiguous one with Disambiguate, an OutOfScope one with
\* OutOfScope and a Help one with Respond, and leaves current_intent,
\* collected_entities, missing_entities and confirmation_pending as they
\* were.
C18_ControlIntentsKeepOperation ==
    [][(call'.made /\ call'.result.val.intent \in ControlIntents) =>
          /\ OperationFields(state') = OperationFields(state)
          /\ shown'.command = NoCommand
          /\ CASE call'.result.val.intent = "Unclear" ->
                      shown'.kind = "Clarify" /\ shown'.field = "intent"
               [] call'.result.val.intent = "Ambiguous" -> shown'.kind = "Disambiguate"
               [] call'.result.val.intent = "OutOfScope" -> shown'.kind = "OutOfScope"
               [] call'.result.val.intent = "Help" -> shown'.kind = "Respond"]_vars

C18_Witness ==
    /\ call.made /\ call.result.val.intent = "Ambiguous"
    /\ shown.kind = "Disambiguate"
    /\ state.current_intent = "TxBuy"
    /\ state.missing_entities # <<>>
    /\ Len(state.history) = 2

\* the accounts an input mentions: its string entities "account" and
\* "from_account"
MentionedAccounts(parsed) ==
    {get_string(parsed.entities, "account"),
     get_string(parsed.entities, "from_account")} \ {NoneStr}

\* C19: after process(p), for any p, control intents included: last_account
\* is an account p mentions in a string entity "account" or "from_account",
\* last_asset is the string entity "asset" of p, and a field p has no
\* entity for keeps its previous value.
C19_ContextFollowsEntities ==
    [][call'.made =>
          LET parsed == call'.result.val
              asset == get_string(parsed.entities, "asset")
          IN /\ IF MentionedAccounts(parsed) = {}
                THEN state'.last_account = state.last_account
                ELSE state'.last_account \in MentionedAccounts(parsed)
             /\ state'.last_asset = IF asset = NoneStr THEN state.last_asset
                                    ELSE asset]_vars

(***************************************************************************)
(* Properties of the turn history                                          *)
(***************************************************************************)
\* C16: the history never holds more than 10 turns; a turn added to a
\* history of fewer than 10 turns comes last behind all of them, and a turn
\* added to a history of 10 turns comes last behind the newest 9 of them,
\* in their order.
C16_HistoryKeepsLastTen ==
    [][/\ Len(state'.history) <= 10
       /\ state'.history =
             IF Len(state.history) < 10
             THEN Append(state.history, Turn("User", call'.text))
             ELSE Append(Tail(state.history), Turn("User", call'.text))]_vars

C16_Witness ==
    /\ calls = 11
    /\ Len(state.history) = 10
    /\ state.history[10].content = call.text
    /\ state.history[9].content = prev.text
    /\ state.history[9].content # state.history[10].content

(***************************************************************************)
(* Properties of the intent table                                          *)
(***************************************************************************)
\* the intents whose command writes to the database or to the configuration
\* file, and those whose command only reads
MutatingIntents ==
    { "TxBuy", "TxSell", "TxTransfer", "TxSwap", "HoldingsAdd", "HoldingsRemove",
      "HoldingsMove", "AccountAdd", "ConfigSet", "Sync" }

ReadingIntents ==
    { "PriceCheck", "MarketView", "PortfolioView", "HoldingsList", "AccountList",
      "AccountShow", "ConfigShow" }

\* C21: requires_confirmation depends on the intent alone; it is true for
\* every intent whose command changes stored state and false for every
\* intent whose command only reads.
C21_ConfirmationFollowsMutation ==
    (call.made /\ call.result.val.intent \in MutatingIntents \cup ReadingIntents)
      => LET intent == call.result.val.intent
         IN requires_confirmation(intent) <=> intent \in MutatingIntents

(***************************************************************************)
(* Properties of the dialogue states                                       *)
(***************************************************************************)
\* the required entities of the current intent that collected_entities lacks
Absent == calculate_missing(state, state.current_intent)

\* C22: between turns the conversation is idle (no intent, no confirmation
\* pending), collecting (an intent, a required entity not collected, no
\* confirmation pending) or confirming (an intent that requires
\* confirmation, every required entity collected, confirmation pending).
C22_IdleCollectingOrConfirming ==
    \/ state.current_intent = "None" /\ ~state.confirmation_pending
    \/ /\ state.current_intent # "None"
       /\ Absent # <<>>
       /\ ~state.confirmation_pending
    \/ /\ state.current_intent # "None"
       /\ requires_confirmation(state.current_intent)
       /\ Absent = <<>>
       /\ state.confirmation_pending

(***************************************************************************)
(* Properties of the clarification                                         *)
(***************************************************************************)
\* the first entity of required that entities has no value for, 0 if none
RECURSIVE FirstAbsent(_, _, _)
FirstAbsent(required, entities, i) ==
    IF i > Len(required) THEN 0
    ELSE IF required[i] \notin DOMAIN entities THEN i
    ELSE FirstAbsent(required, entities, i + 1)

\* C23: a Clarify that process returns for an operation names the first
\* entity, in the order of required_entities, that collected_entities lacks
\* once the parse is merged and the context default applied; process returns
\* that Clarify whenever a required entity is left uncollected, and a Confirm
\* or an Execute only when none is.
C23_ClarifyNamesFirstAbsent ==
    [][(call'.made /\ call'.result.val.intent \notin ControlIntents) =>
          LET parsed == call'.result.val
              required == required_entities(parsed.intent)
              first == FirstAbsent(required, state'.collected_entities, 1)
          IN CASE shown'.kind = "Clarify" ->
                    /\ DOMAIN parsed.entities \subseteq DOMAIN state'.collected_entities
                    /\ first # 0
                    /\ shown'.field = required[first]
               [] shown'.kind = "Confirm" -> first = 0
               [] shown'.kind = "Execute" ->
                    \A i \in DOMAIN required :
                       required[i] \in DOMAIN state.collected_entities
                                          \cup DOMAIN parsed.entities
               [] OTHER -> FALSE]_vars

C23_Witness ==
    /\ call.made /\ call.result.val.intent = "TxBuy"
    /\ call.result.val.missing = <<"price", "account">>
    /\ shown.kind = "Clarify" /\ shown.field = "account"
    /\ "price" \notin DOMAIN state.collected_entities

(***************************************************************************)
(* Properties of the routing of a line                                     *)
(***************************************************************************)
\* C24: the shell routes a line by the conversation state.  A reply is read
\* as a confirmation (Execute or Cancel of the pending operation, or the
\* Clarify for "confirmation") only while confirmation_pending is set; an
\* answer is captured into collected_entities only while an intent is set
\* and no confirmation is pending; process runs (the history grows) only
\* when no intent is set and no confirmation is pending, and then nothing
\* collected for an earlier operation is left to merge into the new one.
C24_RoutedByState ==
    [][/\ (shown'.kind = "Cancel"
              \/ (shown'.kind = "Clarify" /\ shown'.field = "confirmation"))
            => state.confirmation_pending
       /\ shown'.kind \in {"Question", "Invalid", "Nothing"}
            => state.current_intent # "None" /\ ~state.confirmation_pending
       /\ state'.history # state.history
            => /\ state.current_intent = "None"
               /\ ~state.confirmation_pending
               /\ state.collected_entities = EmptyMap
               /\ state.missing_entities = <<>>]_vars

C24_Witness ==
    /\ Len(state.history) = 2
    /\ state.current_intent = "TxBuy"
    /\ shown.kind = "Clarify" /\ shown.field = "price"
    /\ state.history[1].content # state.history[2].content
    /\ "symbols" \notin DOMAIN state.collected_entities

(***************************************************************************)
(* Properties of the slot filling                                          *)
(***************************************************************************)
\* C25: an answer the shell captures is stored under the field of the last
\* question shown, and under no other key.
C25_AnswerStoredUnderFieldAsked ==
    [][(state'.history = state.history /\ shown'.kind \in {"Question", "Confirm"}) =>
          /\ op.asked # <<>>
          /\ LET asked == op.asked[Len(op.asked)]
             IN /\ asked \in DOMAIN state'.collected_entities
                /\ \A key \in DOMAIN state'.collected_entities \ {asked} :
                      /\ key \in DOMAIN state.collected_entities
                      /\ state'.collected_entities[key] = state.collected_entities[key]]_vars

\* C26: whenever an intent is set and no confirmation is pending the state's
\* missing_entities is not empty, so the next line is taken as an answer:
\* in no state are all lines ignored until an interrupt.
C26_CollectingHasAFieldToFill ==
    (state.current_intent # "None" /\ ~state.confirmation_pending)
      => state.missing_entities # <<>>

(***************************************************************************)
(* Properties of the context default                                       *)
(***************************************************************************)
\* C27: process keeps the "account" entity of the parse in
\* collected_entities; last_account is written to "account" only when the
\* parse has no "account" entity, and never to "from_account" or
\* "to_account".
C27_DefaultOnlyFillsAbsentAccount ==
    [][(call'.made /\ shown'.kind \in {"Clarify", "Confirm"}
           /\ call'.result.val.intent \notin ControlIntents) =>
          LET parsed == call'.result.val
          IN \A key \in {"account", "from_account", "to_account"} :
                /\ key \in DOMAIN parsed.entities
                     => /\ key \in DOMAIN state'.collected_entities
                        /\ state'.collected_entities[key] = parsed.entities[key]
                /\ (key # "account" /\ key \notin DOMAIN parsed.entities
                        /\ key \in DOMAIN state'.collected_entities)
                     => /\ key \in DOMAIN state.collected_entities
                        /\ state'.collected_entities[key] = state.collected_entities[key]]_vars

(***************************************************************************)
(* Properties of the confirmed command                                     *)
(***************************************************************************)
\* the command to_cli_command renders from an intent and collected entities
CommandOf(st) ==
    to_cli_command(ParsedInput(st.current_intent, st.collected_entities, <<>>, 100, <<>>))

\* C28: the command of the Execute returned when the user accepts a
\* confirmation is the command of the Confirm that asked for it.  The
\* Confirm's command is rendered from the intent and the collected entities
\* of the state it leaves, the Execute's from those of the state it finds,
\* and no step in between, a reply that is neither a yes nor a no included,
\* changes either.
C28_ExecuteRunsWhatWasConfirmed ==
    [][/\ (shown'.kind = "Confirm" /\ state'.history # state.history)
            => shown'.command = CommandOf(state')
       /\ (state.confirmation_pending /\ shown'.kind = "Execute")
            => /\ shown'.command = CommandOf(state)
               /\ (shown.kind = "Confirm" /\ state.history # <<>> /\ shown.command # NoCommand)
                     => shown'.command = shown.command
       /\ (state.confirmation_pending /\ shown'.kind \notin {"Execute", "Cancel", "Interrupted"})
            => /\ state'.confirmation_pending
               /\ state'.current_intent = state.current_intent
               /\ state'.collected_entities = state.collected_entities]_vars

C28_Witness ==
    /\ shown.kind = "Execute" /\ shown.intent = "TxBuy"
    /\ shown.command = <<"tx", "buy", "BTC", "0.1", "--account", "\"Binance\"", "--price", "95000">>
    /\ state.current_intent = "None"

(***************************************************************************)
(* Properties of the single-provider modes                                 *)
(***************************************************************************)
\* C29: a service built by AiService::new in Online mode never invokes the
\* Ollama provider and one in Offline mode never invokes the Claude
\* provider; when the provider of the mode is not configured no provider is
\* invoked, no request is sent and the result is Unclear at confidence 0.
C29_ModeKeepsToItsProvider ==
    call.made =>
        /\ service.mode = "Online" =>
              /\ call.invoked = IF service.claude THEN <<"Claude">> ELSE <<>>
              /\ ~service.claude => call.requests = <<>> /\ call.result = Unclear0(call.text)
        /\ service.mode = "Offline" =>
              /\ call.invoked = IF service.ollama THEN <<"Ollama">> ELSE <<>>
              /\ ~service.ollama => call.requests = <<>> /\ call.result = Unclear0(call.text)

C29_Witness ==
    /\ service.mode = "Online" /\ ~service.claude
    /\ prev.made /\ prev.invoked = <<>> /\ assess_complexity(prev.text) = "Low"
    /\ call.made /\ call.invoked = <<>> /\ assess_complexity(call.text) = "High"
    /\ call.result = Unclear0(call.text)

(***************************************************************************)
(* warn_ai_fallback called from several threads.  The swap is one atomic   *)
(* step (AtomicBool::swap, SeqCst); the display that follows it is another. *)
(***************************************************************************)
\* a caller that reads the flag and does not set it
WarnSwap_only_loading(t) ==
    /\ callers[t].pc = "out"
    /\ callers[t].n < MaxWarnCalls
    /\ callers' = [callers EXCEPT ![t] = Caller("swapped", warned, @.n + 1)]
    /\ UNCHANGED <<service, warned, call, prev, calls, notices, shellVars>>

\* FALLBACK_WARNING_SHOWN.swap(true, Ordering::SeqCst)
WarnSwap(t) ==
    /\ callers[t].pc = "out"
    /\ callers[t].n < MaxWarnCalls
    /\ callers' = [callers EXCEPT ![t] = Caller("swapped", warned, @.n + 1)]
    /\ warned' = warn_ai_fallback(warned)
    /\ UNCHANGED <<service, call, prev, calls, notices, shellVars>>

\* the swap returned false: Notification::warning(..).show()
WarnShow(t) ==
    /\ callers[t].pc = "swapped"
    /\ ~callers[t].old
    /\ notices' = notices + 1
    /\ callers' = [callers EXCEPT ![t] = Caller("out", FALSE, @.n)]
    /\ UNCHANGED <<service, warned, call, prev, calls, shellVars>>

\* the swap returned true: nothing is displayed
WarnReturn(t) ==
    /\ callers[t].pc = "swapped"
    /\ callers[t].old
    /\ callers' = [callers EXCEPT ![t] = Caller("out", FALSE, @.n)]
    /\ UNCHANGED <<service, warned, call, prev, calls, notices, shellVars>>

NextWarn ==
    \/ \E t \in 1..MaxCallers : WarnSwap(t)
    \/ \E t \in 1..MaxCallers : WarnShow(t)
    \/ \E t \in 1..MaxCallers : WarnReturn(t)

SpecWarn == Init /\ [][NextWarn]_vars

\* C30: the fallback warning is displayed at most once, whatever the number
\* of calls of warn_ai_fallback and however the callers interleave; once a
\* call has been made, either the warning has been displayed or the one
\* caller whose swap returned false is about to display it, so that it has
\* been displayed exactly once when every caller has returned.
C30_WarningShownOnce ==
    LET called == \E t \in 1..MaxCallers : callers[t].n > 0
        showing == {t \in 1..MaxCallers : callers[t].pc = "swapped" /\ ~callers[t].old}
    IN /\ notices <= 1
       /\ warned <=> called
       /\ called => notices + Cardinality(showing) = 1
       /\ (called /\ \A t \in 1..MaxCallers : callers[t].pc = "out") => notices = 1

C30_Witness ==
    /\ notices = 1
    /\ \A t \in 1..MaxCallers : callers[t].pc = "out" /\ callers[t].n = MaxWarnCalls

====
